---- MODULE Spec2Model ----
(***************************************************************************)
(* Model of the two C programs of the repository rd_sci.                   *)
(*                                                                         *)
(* median_filter.c: main reads the station                                 *)
(* file, builds a date.time key per record, sorts the records with qsort   *)
(* on that key, extracts the foF2 and hmF2 columns and runs the            *)
(* one-dimensional median filter (window 3) on each, handing the raw and   *)
(* the filtered column to gnuplot.                                         *)
(*                                                                         *)
(* C arrays are functions over 0..n-1 so that indices are the source's.    *)
(* C strings are sequences of character codes (the terminating NUL is not  *)
(* stored).  The float columns hold small whole numbers.                   *)
(*                                                                         *)
(* geom_dist.c converts between GIS coordinates and range and bearing; a   *)
(* later version of it follows median_filter.c in the same source file.    *)
(* Each program has its own specification; the variables of the other one  *)
(* stay at their initial values.                                           *)
(***************************************************************************)
EXTENDS Integers, Sequences, FiniteSets, TLC

VARIABLES
    file,               \* the lines of the input file, each a sequence of tokens
    fopen_ok,           \* whether fopen of the input file succeeds
    log,                \* the diagnostics printed so far
    exit_code,          \* exit status of the process, -1 while it has none
    nullUse,            \* <<row, token>> for every null strtok result readInputFile passed on
    pc,                 \* position of main
    temporals,          \* struct temporal temporals[], the rows read so far
    end,                \* number of rows read (readInputFile's return value)
    date_time,          \* struct new_temporal date_time[end]
    fof2,               \* float fof2[end]
    hmf2,               \* float hmf2[end]
    filter_name,        \* title argument of the last medianFilter call
    outputPixelValue,   \* outputPixelValue[] of the last medianFilter call
    acc,                \* indices the last medianFilter call used: dat reads, output writes, window writes
    plots,              \* what has been written to the gnuplot pipes, one entry per plot
    \* geom_dist
    world,              \* what a run of geom_dist is given: the version built, argv, getopt's mode, the file
    gpc,                \* position of geom_dist's main
    calls,              \* the functions main has called so far
    command_stat,       \* main's command_stat, -2 before getComOptions returns
    coords,             \* main's buffers i_lat, i_lon, coord_a, coord_b
    init_gis,           \* coordUtility's init_gis (start_gis)
    final_gis,          \* coordUtility's final_gis
    radar,              \* coordUtility's radar
    shown,              \* the arguments of the display steps that have printed
    glog,               \* geom_dist's diagnostics
    gexit               \* geom_dist's exit status, -1 while it has none

mvars == <<file, fopen_ok, log, exit_code, nullUse, pc, temporals, end, date_time,
           fof2, hmf2, filter_name, outputPixelValue, acc, plots>>

gvars == <<world, gpc, calls, command_stat, coords, init_gis, final_gis, radar, shown,
           glog, gexit>>

vars == <<mvars, gvars>>

(***************************************************************************)
(* Bounds of the model                                                     *)
(***************************************************************************)
MaxRows == 3        \* rows of the files whose date and time vary
MaxLen == 4         \* rows of the files whose channel values vary
MaxVal == 2         \* channel values of those files are 0..MaxVal
MaxRamp == 5        \* strictly monotonic columns take their values in 0..MaxRamp
MaxBadRows == 2     \* rows of the files whose lines have other token counts than 15
FewerRows == 3      \* the long files have NUM_ROWS - FewerRows to NUM_ROWS + 1 rows
MaxArgs == 3        \* command-line arguments after the program name

(***************************************************************************)
(* Program constants                                                       *)
(***************************************************************************)
NUM_ROWS == 467
COORD == 8           \* geom_dist: size of a coordinate buffer
FLOAT_DATA == 11
CHAR_DATE == 11      \* sizes of the char fields of struct temporal
CHAR_TIME == 9
INT_SYM == 6
DAT0 == 0
DAT1 == 5
MEDIAN_WIN_GUESS == 3
DOT == 46           \* the "." that main puts between date and time

EmptyArr == [k \in {} |-> 0]

\* a sequence as a C array
ToArr(s) == [k \in 0..(Len(s) - 1) |-> s[k + 1]]

(***************************************************************************)
(* libc: atoi/atof on a token of decimal digits, strcmp, strcat            *)
(***************************************************************************)
IsDigit(c) == c \in 48..57

RECURSIVE DigitsVal(_, _, _)
DigitsVal(tok, k, a) ==
    IF k <= Len(tok) /\ IsDigit(tok[k])
    THEN DigitsVal(tok, k + 1, 10 * a + (tok[k] - 48))
    ELSE a

\* the leading decimal digits of the token; 0 when there are none
Atoi(tok) == DigitsVal(tok, 1, 0)

Atof(tok) == DigitsVal(tok, 1, 0)

RECURSIVE StrcmpFrom(_, _, _)
StrcmpFrom(a, b, k) ==
    IF k > Len(a) /\ k > Len(b) THEN 0
    ELSE IF k > Len(a) THEN -1
    ELSE IF k > Len(b) THEN 1
    ELSE IF a[k] < b[k] THEN -1
    ELSE IF a[k] > b[k] THEN 1
    ELSE StrcmpFrom(a, b, k + 1)

\* sign of strcmp(a, b): bytes compared as unsigned char, the NUL ends the shorter string first
Strcmp(a, b) == StrcmpFrom(a, b, 1)

Strcat(a, b) == a \o b

(***************************************************************************)
(* Input files.  A line is the sequence of its space-separated tokens; the *)
(* first two lines are the header and the blank line, a data row has the   *)
(* 15 tokens date, symbol, time, sequence number and 11 channel values.    *)
(***************************************************************************)
RECURSIVE Num(_)
Num(v) == IF v < 10 THEN <<48 + v>> ELSE Num(v \div 10) \o <<48 + (v % 10)>>

Row(date, time, x, v0, v5) ==
    <<date, <<65>>, time, Num(x)>> \o
    [k \in 1..FLOAT_DATA |-> IF k = DAT0 + 1 THEN Num(v0)
                             ELSE IF k = DAT1 + 1 THEN Num(v5)
                             ELSE Num(9)]

Header == << <<72>>, <<>> >>

\* date tokens: "1" is a prefix of "1-" and of "11"; '-' sorts before '.', '1' after it
Dates == { <<49>>, <<49, 45>>, <<49, 49>>, <<50>> }
Times == { <<49>>, <<50>> }

\* a file whose dates and times vary; row k carries the channel values k and n - k
KeyFile(n, dk) == Header \o [k \in 1..n |-> Row(dk[k][1], dk[k][2], k, k, n - k)]

\* a file in chronological order with the foF2 values v; the hmF2 column is the
\* foF2 column shifted by m
ValueFile(n, v, m) ==
    Header \o [k \in 1..n |-> Row(<<49, 49>>, Num(k), k, v[k], (v[k] + m) % (MaxVal + 1))]

RECURSIVE Ascending(_)
Ascending(S) ==
    IF S = {} THEN <<>>
    ELSE LET m == CHOOSE x \in S : \A y \in S : x <= y
         IN <<m>> \o Ascending(S \ {m})

Reverse(s) == [k \in 1..Len(s) |-> s[Len(s) + 1 - k]]

\* a file whose foF2 column is strictly increasing and whose hmF2 column is strictly decreasing
RampFile(S) ==
    LET up == Ascending(S)
        dn == Reverse(up)
    IN Header \o [k \in 1..Len(up) |-> Row(<<49, 49>>, Num(k), k, up[k], dn[k])]

\* the array A[] of the comment above medianFilter
ScenarioA == <<7, 8, 2, 1, 3, 6, 5, 7, 4>>

ScenarioAFile ==
    Header \o [k \in 1..Len(ScenarioA) |-> Row(<<49, 49>>, Num(k), k, ScenarioA[k], ScenarioA[k])]

\* a data row cut to its first c tokens; c = 16 gives the row with one token more
Cut(row, c) == IF c > Len(row) THEN row \o << <<55>> >> ELSE SubSeq(row, 1, c)

\* 0 tokens is an empty line
TokenCounts == {0, 3, 10, 15, 16}

\* a file whose data lines have the token counts cut[k]
CutFile(n, cut) ==
    Header \o [k \in 1..n |-> Cut(Row(<<49, 49>>, Num(k), k, k + 1, k + 2), cut[k])]

\* a file of two 15-token data lines in which token t of the second line is not a number:
\* "x", or "3x" that only starts with a digit
NotANumber == { <<120>>, <<51, 120>> }

NonNumericFile(t, tok) ==
    Header \o << Row(<<49, 49>>, <<49>>, 1, 1, 2),
                 [Row(<<49, 49>>, <<50>>, 2, 3, 4) EXCEPT ![t] = tok] >>

\* a file without the two leading lines: every line is a data row
HeaderlessFile(n) == [k \in 1..n |-> Row(<<49, 49>>, Num(k), k, k, n - k)]

\* a file of n well-formed data rows, c in the hmF2 column
LongFile(n, c) == Header \o [k \in 1..n |-> Row(<<49, 49>>, Num(k), k, k % 10, c)]

\* a token of n characters
Wide(n) == [k \in 1..n |-> 49]

\* a file of two data rows; token i of the first row has n characters
WideFile(i, n) ==
    Header \o << [Row(<<49, 49>>, <<49>>, 1, 1, 2) EXCEPT ![i] = Wide(n)],
                 Row(<<49, 49>>, <<50>>, 2, 3, 4) >>

InputFile(f) ==
    \/ \E n \in 0..MaxRows : \E dk \in [1..n -> Dates \X Times] : f = KeyFile(n, dk)
    \/ \E n \in 0..MaxLen : \E v \in [1..n -> 0..MaxVal] : \E m \in 0..1 : f = ValueFile(n, v, m)
    \/ \E S \in SUBSET (0..MaxRamp) : f = RampFile(S)
    \/ f = ScenarioAFile
    \/ \E n \in 1..MaxBadRows : \E cut \in [1..n -> TokenCounts] : f = CutFile(n, cut)
    \/ \E t \in 4..(4 + FLOAT_DATA) : \E tok \in NotANumber : f = NonNumericFile(t, tok)
    \/ \E n \in 0..MaxRows : f = HeaderlessFile(n)
    \/ f = SubSeq(Header, 1, 1)

(***************************************************************************)
(* readInputFile: exits with status 1 when fopen fails; otherwise discards *)
(* two lines, then fills one struct temporal per line from the results of  *)
(* 15 strtok calls.  The first four calls split at " " only, so the last   *)
(* token of a line of at most four tokens keeps the line's "\n", and an    *)
(* empty line is the one token "\n".  Past the last token strtok returns a *)
(* null pointer, which is passed to strcpy, atoi or atof unchecked; the    *)
(* rows are stored in temporals[NUM_ROWS] without a check of the index.    *)
(* Nor is the length of a token compared with the size of its field.       *)
(* Each of these is undefined: the process crashes, or goes on with         *)
(* indeterminate field contents, with the rows written past the array and   *)
(* with the fields that the copies have left.                               *)
(***************************************************************************)
TokenCount == 4 + FLOAT_DATA

HasToken(line, i) == IF Len(line) = 0 THEN i = 1 ELSE i <= Len(line)

\* the result of the i-th strtok call on the line; g where it is a null pointer
Token(line, i, g) ==
    IF ~HasToken(line, i) THEN g
    ELSE IF Len(line) = 0 THEN <<10>>
    ELSE IF i = Len(line) /\ i <= 4 THEN line[i] \o <<10>>
    ELSE line[i]

\* struct temporal: date at offset 0, dig behind it, timestmp behind dig, then
\* padding up to the int x.  strcpy copies the token and its NUL whatever the
\* size of the field, so a token of the size of its field or more runs into
\* the next field; what a field holds is what stands from its offset up to the
\* first NUL once the three copies are made.  The tokens of the model end
\* before x.
FieldSize == <<CHAR_DATE, INT_SYM, CHAR_TIME>>

FieldOffset == <<0, CHAR_DATE, CHAR_DATE + INT_SYM>>

OffsetX == ((CHAR_DATE + INT_SYM + CHAR_TIME + 3) \div 4) * 4

Strcpy(mem, at, str) ==
    [a \in DOMAIN mem |-> IF a \in at..(at + Len(str) - 1) THEN str[a - at + 1]
                          ELSE IF a = at + Len(str) THEN 0
                          ELSE mem[a]]

RECURSIVE StringAt(_, _)
StringAt(mem, at) ==
    IF at \notin DOMAIN mem \/ mem[at] = 0 THEN <<>>
    ELSE <<mem[at]>> \o StringAt(mem, at + 1)

\* the bytes of the three char fields after the three strcpy calls of a line
CharFields(line, g) ==
    LET m0 == [a \in 0..(OffsetX - 1) |-> 0]
        m1 == Strcpy(m0, FieldOffset[1], Token(line, 1, g))
        m2 == Strcpy(m1, FieldOffset[2], Token(line, 2, g))
    IN Strcpy(m2, FieldOffset[3], Token(line, 3, g))

\* variant: the channels are read one token early
ParseLineShifted(line, g) ==
    LET mem == CharFields(line, g)
    IN [date     |-> StringAt(mem, FieldOffset[1]),
        dig      |-> StringAt(mem, FieldOffset[2]),
        timestmp |-> StringAt(mem, FieldOffset[3]),
        x        |-> Atoi(Token(line, 4, g)),
        d        |-> [k \in 0..(FLOAT_DATA - 1) |-> Atof(Token(line, 4 + k, g))]]

ParseLine(line, g) ==
    LET mem == CharFields(line, g)
    IN [date     |-> StringAt(mem, FieldOffset[1]),
        dig      |-> StringAt(mem, FieldOffset[2]),
        timestmp |-> StringAt(mem, FieldOffset[3]),
        x        |-> Atoi(Token(line, 4, g)),
        d        |-> [k \in 0..(FLOAT_DATA - 1) |-> Atof(Token(line, 5 + k, g))]]

\* variant: only one leading line is discarded
DataLinesOneHeader(f) == SubSeq(f, 2, Len(f))

DataLines(f) == SubSeq(f, 3, Len(f))

NullUses(f) ==
    {ki \in (1..Len(DataLines(f))) \X (1..TokenCount) : ~HasToken(DataLines(f)[ki[1]], ki[2])}

\* the copies that write past the end of their field: line k, token i
Overruns(f) ==
    {ki \in (1..Len(DataLines(f))) \X (1..3) :
        /\ HasToken(DataLines(f)[ki[1]], ki[2])
        /\ Len(Token(DataLines(f)[ki[1]], ki[2], <<>>)) >= FieldSize[ki[2]]}

\* what a null token reads as when the process survives it
Indeterminate(f) == IF NullUses(f) = {} THEN { <<>> } ELSE { <<>>, <<57>> }

\* the rows stored before the process crashes in the loop
RowsBeforeCrash(f) ==
    LET bad == {k \in 1..Len(DataLines(f)) :
                    \/ \E i \in 1..TokenCount : ~HasToken(DataLines(f)[k], i)
                    \/ \E i \in 1..3 : <<k, i>> \in Overruns(f)}
        first == IF bad = {} THEN Len(DataLines(f)) + 1
                 ELSE CHOOSE k \in bad : \A j \in bad : k <= j
    IN IF first - 1 <= NUM_ROWS THEN first - 1 ELSE NUM_ROWS

FirstNullUse(f) ==
    {ki \in NullUses(f) : \A kj \in NullUses(f) :
        ki[1] < kj[1] \/ (ki[1] = kj[1] /\ ki[2] <= kj[2])}

\* variant: a failed fopen is reported and the function returns no rows
ReadInputFileNoExit ==
    /\ pc = "read"
    /\ \/ /\ ~fopen_ok
          /\ log' = Append(log, "Cannot read file")
          /\ pc' = "combine"
          /\ UNCHANGED <<temporals, end, nullUse, exit_code>>
       \/ /\ fopen_ok
          /\ \E g \in Indeterminate(file) :
                temporals' = ToArr([k \in 1..Len(DataLines(file)) |->
                                        ParseLine(DataLines(file)[k], g)])
          /\ end' = Len(DataLines(file))
          /\ nullUse' = NullUses(file)
          /\ pc' = "combine"
          /\ UNCHANGED <<log, exit_code>>
       \/ /\ fopen_ok
          /\ NullUses(file) # {} \/ Len(DataLines(file)) > NUM_ROWS \/ Overruns(file) # {}
          /\ temporals' = ToArr([k \in 1..RowsBeforeCrash(file) |->
                                    ParseLine(DataLines(file)[k], <<>>)])
          /\ nullUse' = FirstNullUse(file)
          /\ pc' = "crashed"
          /\ UNCHANGED <<log, exit_code, end>>
    /\ UNCHANGED <<gvars, file, fopen_ok, date_time, fof2, hmf2, filter_name, outputPixelValue, acc, plots>>

ReadInputFile ==
    /\ pc = "read"
    /\ \/ /\ ~fopen_ok
          /\ log' = Append(log, "Cannot read file")
          /\ exit_code' = 1
          /\ pc' = "exited"
          /\ UNCHANGED <<temporals, end, nullUse>>
       \/ /\ fopen_ok
          /\ \E g \in Indeterminate(file) :
                temporals' = ToArr([k \in 1..Len(DataLines(file)) |->
                                        ParseLine(DataLines(file)[k], g)])
          /\ end' = Len(DataLines(file))
          /\ nullUse' = NullUses(file)
          /\ pc' = "combine"
          /\ UNCHANGED <<log, exit_code>>
       \/ /\ fopen_ok
          /\ NullUses(file) # {} \/ Len(DataLines(file)) > NUM_ROWS \/ Overruns(file) # {}
          /\ temporals' = ToArr([k \in 1..RowsBeforeCrash(file) |->
                                    ParseLine(DataLines(file)[k], <<>>)])
          /\ nullUse' = FirstNullUse(file)
          /\ pc' = "crashed"
          /\ UNCHANGED <<log, exit_code, end>>
    /\ UNCHANGED <<gvars, file, fopen_ok, date_time, fof2, hmf2, filter_name, outputPixelValue, acc, plots>>

(***************************************************************************)
(* main: the key date "." time and the two requested columns of every row  *)
(***************************************************************************)
\* variant: the key is built time first
NewTemporalTimeFirst(t) ==
    [date_t |-> Strcat(Strcat(t.timestmp, <<DOT>>), t.date),
     fof2   |-> t.d[DAT0],
     hmf2   |-> t.d[DAT1]]

NewTemporal(t) ==
    [date_t |-> Strcat(Strcat(t.date, <<DOT>>), t.timestmp),
     fof2   |-> t.d[DAT0],
     hmf2   |-> t.d[DAT1]]

Combine ==
    /\ pc = "combine"
    /\ date_time' = [k \in 0..(end - 1) |-> NewTemporal(temporals[k])]
    /\ pc' = "sort"
    /\ UNCHANGED <<gvars, file, fopen_ok, log, exit_code, nullUse, temporals, end, fof2, hmf2,
                   filter_name, outputPixelValue, acc, plots>>

(***************************************************************************)
(* qsort(date_time, end, sizeof(struct new_temporal), sortDate).           *)
(* sortDate reads the key through a struct temporal pointer: date is the   *)
(* first member of both structs, so strcmp runs over the whole key.        *)
(* qsort may leave the elements in any order that its comparator accepts.  *)
(***************************************************************************)
\* variant: the comparator's arguments are swapped
\* variant: records of equal keys are ordered by their hmF2 values
sortDateThenHmF2(a, b) ==
    IF Strcmp(a.date_t, b.date_t) # 0 THEN Strcmp(a.date_t, b.date_t)
    ELSE IF a.hmf2 < b.hmf2 THEN -1
    ELSE IF a.hmf2 > b.hmf2 THEN 1
    ELSE 0

sortDateReversed(a, b) == Strcmp(b.date_t, a.date_t)

sortDate(a, b) == Strcmp(a.date_t, b.date_t)

RECURSIVE SortedOrders(_, _)
SortedOrders(arr, idxs) ==
    IF idxs = {} THEN {<<>>}
    ELSE LET mins == {i \in idxs : \A j \in idxs : sortDate(arr[i], arr[j]) <= 0}
         IN UNION {{<<i>> \o t : t \in SortedOrders(arr, idxs \ {i})} : i \in mins}

\* variant: the keys are sorted, the two values of each position stay where they are
QsortKeysOnly(arr) ==
    {[k \in DOMAIN arr |-> [date_t |-> arr[ord[k + 1]].date_t,
                            fof2   |-> arr[k].fof2,
                            hmf2   |-> arr[k].hmf2]] : ord \in SortedOrders(arr, DOMAIN arr)}

Qsort(arr) == {[k \in DOMAIN arr |-> arr[ord[k + 1]]] : ord \in SortedOrders(arr, DOMAIN arr)}

Sort ==
    /\ pc = "sort"
    /\ date_time' \in Qsort(date_time)
    /\ pc' = "extract"
    /\ UNCHANGED <<gvars, file, fopen_ok, log, exit_code, nullUse, temporals, end, fof2, hmf2,
                   filter_name, outputPixelValue, acc, plots>>

\* variant: the columns are read from the last record to the first
ExtractReversed ==
    /\ pc = "extract"
    /\ fof2' = [k \in 0..(end - 1) |-> date_time[end - 1 - k].fof2]
    /\ hmf2' = [k \in 0..(end - 1) |-> date_time[end - 1 - k].hmf2]
    /\ pc' = "filter_fof2"
    /\ UNCHANGED <<gvars, file, fopen_ok, log, exit_code, nullUse, temporals, end, date_time,
                   filter_name, outputPixelValue, acc, plots>>

Extract ==
    /\ pc = "extract"
    /\ fof2' = [k \in 0..(end - 1) |-> date_time[k].fof2]
    /\ hmf2' = [k \in 0..(end - 1) |-> date_time[k].hmf2]
    /\ pc' = "filter_fof2"
    /\ UNCHANGED <<gvars, file, fopen_ok, log, exit_code, nullUse, temporals, end, date_time,
                   filter_name, outputPixelValue, acc, plots>>

(***************************************************************************)
(* medianFilter.  The loops are run on a record of the function's arrays:  *)
(* dat (the caller's array), out (outputPixelValue), window, and the sets  *)
(* of indices used so far: rd (reads of dat), wr (writes of out) and wi    *)
(* (writes of window).  A read outside an array yields the indeterminate   *)
(* value g, a write outside it leaves the array as it is.                  *)
(***************************************************************************)
Load(arr, i, g) == IF i \in DOMAIN arr THEN arr[i] ELSE g

Store(arr, i, v) == IF i \in DOMAIN arr THEN [arr EXCEPT ![i] = v] ELSE arr

compareVals(arg1, arg2) ==
    IF arg1 < arg2 THEN -1
    ELSE IF arg1 > arg2 THEN 1
    ELSE 0

RECURSIVE SortedVals(_, _)
SortedVals(arr, idxs) ==
    IF idxs = {} THEN <<>>
    ELSE LET i == CHOOSE m \in idxs : \A j \in idxs : compareVals(arr[m], arr[j]) <= 0
         IN <<arr[i]>> \o SortedVals(arr, idxs \ {i})

\* qsort(window, window_width, sizeof(float), compareVals): equal floats are indistinguishable
QsortWindow(w) == ToArr(SortedVals(w, DOMAIN w))

window_width == MEDIAN_WIN_GUESS

edge == window_width \div 2

\* variant: the copy stops one element early
RECURSIVE CopyLoopShort(_, _, _, _)
CopyLoopShort(st, k, e, g) ==
    IF k < e - 1
    THEN CopyLoopShort([st EXCEPT !.out = Store(@, k, Load(st.dat, k, g)),
                                  !.rd = @ \cup {k},
                                  !.wr = @ \cup {k}], k + 1, e, g)
    ELSE st

\* for (int k=0; k<end; k++) outputPixelValue[k] = dat[k];
RECURSIVE CopyLoop(_, _, _, _)
CopyLoop(st, k, e, g) ==
    IF k < e
    THEN CopyLoop([st EXCEPT !.out = Store(@, k, Load(st.dat, k, g)),
                             !.rd = @ \cup {k},
                             !.wr = @ \cup {k}], k + 1, e, g)
    ELSE st

\* variant: the window is filled from the output array, filtering in place
RECURSIVE FillWindowFromOutput(_, _, _, _, _)
FillWindowFromOutput(st, i, j, k, g) ==
    IF j < window_width
    THEN FillWindowFromOutput([st EXCEPT !.window = Store(@, k, Load(st.out, i + j - edge, g)),
                                         !.rd = @ \cup {i + j - edge},
                                         !.wi = @ \cup {k}], i, j + 1, k + 1, g)
    ELSE st

\* variant: the window starts at i instead of i - edge
RECURSIVE FillWindowNoEdge(_, _, _, _, _)
FillWindowNoEdge(st, i, j, k, g) ==
    IF j < window_width
    THEN FillWindowNoEdge([st EXCEPT !.window = Store(@, k, Load(st.dat, i + j, g)),
                                     !.rd = @ \cup {i + j},
                                     !.wi = @ \cup {k}], i, j + 1, k + 1, g)
    ELSE st

\* for (int j=0; j<window_width; j++) window[k++] = dat[i + j - edge];
RECURSIVE FillWindow(_, _, _, _, _)
FillWindow(st, i, j, k, g) ==
    IF j < window_width
    THEN FillWindow([st EXCEPT !.window = Store(@, k, Load(st.dat, i + j - edge, g)),
                               !.rd = @ \cup {i + j - edge},
                               !.wi = @ \cup {k}], i, j + 1, k + 1, g)
    ELSE st

\* variant: the first element of the sorted window is taken
FilterBodyFirst(st, i, g) ==
    LET filled == FillWindow(st, i, 0, 0, g)
        sorted == QsortWindow(filled.window)
    IN [filled EXCEPT !.window = sorted,
                      !.out = Store(@, i, sorted[0]),
                      !.wr = @ \cup {i}]

\* variant: the median is written back into dat
FilterBodyInPlace(st, i, g) ==
    LET filled == FillWindow(st, i, 0, 0, g)
        sorted == QsortWindow(filled.window)
    IN [filled EXCEPT !.window = sorted,
                      !.dat = Store(@, i, sorted[edge]),
                      !.wr = @ \cup {i}]

\* variant: the mean of the window instead of its middle element
FilterBodyMean(st, i, g) ==
    LET filled == FillWindow(st, i, 0, 0, g)
        sorted == QsortWindow(filled.window)
    IN [filled EXCEPT !.window = sorted,
                      !.out = Store(@, i, (sorted[0] + sorted[1] + sorted[2]) \div 3),
                      !.wr = @ \cup {i}]

\* one pass of the body of the loop over i: fill, qsort, outputPixelValue[i] = window[edge]
FilterBody(st, i, g) ==
    LET filled == FillWindow(st, i, 0, 0, g)
        sorted == QsortWindow(filled.window)
    IN [filled EXCEPT !.window = sorted,
                      !.out = Store(@, i, sorted[edge]),
                      !.wr = @ \cup {i}]

\* variant: the loop runs while i <= end - edge
RECURSIVE FilterLoopInclusive(_, _, _, _)
FilterLoopInclusive(st, i, e, g) ==
    IF i <= e - edge
    THEN FilterLoopInclusive(FilterBody(st, i, g), i + 1, e, g)
    ELSE st

\* for (int i=edge; i<(end-edge); i++) ...
RECURSIVE FilterLoop(_, _, _, _)
FilterLoop(st, i, e, g) ==
    IF i < e - edge
    THEN FilterLoop(FilterBody(st, i, g), i + 1, e, g)
    ELSE st

\* the arrays when filterPlot is called; outputPixelValue and window start indeterminate
MedianFilterRun(dat, e, g) ==
    LET st0 == [dat    |-> dat,
                out    |-> [k \in 0..(e - 1) |-> g],
                window |-> [j \in 0..(window_width - 1) |-> g],
                rd     |-> {},
                wr     |-> {},
                wi     |-> {}]
    IN FilterLoop(CopyLoop(st0, 0, e, g), edge, e, g)

\* the indeterminate value matters only to a run that reads outside dat
MedianFilterOutcomes(dat, e) ==
    LET r0 == MedianFilterRun(dat, e, 0)
    IN IF r0.rd \subseteq DOMAIN dat
       THEN {r0}
       ELSE {MedianFilterRun(dat, e, g) : g \in 0..MaxVal}

\* main from the read of a file of complete lines up to the return of
\* medianFilter(fof2, end, "foF2"): the pairs of raw and filtered column
\* that the runs on the file end with
FoF2Runs(f) ==
    LET rows == ToArr([k \in 1..Len(DataLines(f)) |-> ParseLine(DataLines(f)[k], <<>>)])
        dt   == [k \in DOMAIN rows |-> NewTemporal(rows[k])]
    IN UNION {{<<r.dat, r.out>> :
                  r \in MedianFilterOutcomes([k \in DOMAIN srt |-> srt[k].fof2],
                                             Len(DataLines(f)))} : srt \in Qsort(dt)}

(***************************************************************************)
(* filterPlot: the title and the two data blocks written to the gnuplot    *)
(* pipe, each point an index and a value.  When popen fails the function   *)
(* prints " gnu launch error " and goes on to fprintf on a null stream:    *)
(* the process crashes or the writes are lost.                             *)
(***************************************************************************)
PlotBlock(a, e) == [i \in 1..e |-> <<i - 1, Load(a, i - 1, 0)>>]

\* variant: the second block stops one point early
FilterPlotShort(dat, ftr, e, title, next) ==
    \/ /\ plots' = Append(plots, [title      |-> title,
                                  unfiltered |-> PlotBlock(dat, e),
                                  filtered   |-> PlotBlock(ftr, e - 1)])
       /\ log' = log
       /\ pc' = next
    \/ /\ plots' = plots
       /\ log' = Append(log, "gnu launch error")
       /\ pc' = next
    \/ /\ plots' = plots
       /\ log' = Append(log, "gnu launch error")
       /\ pc' = "crashed"

FilterPlot(dat, ftr, e, title, next) ==
    \/ /\ plots' = Append(plots, [title      |-> title,
                                  unfiltered |-> PlotBlock(dat, e),
                                  filtered   |-> PlotBlock(ftr, e)])
       /\ log' = log
       /\ pc' = next
    \/ /\ plots' = plots
       /\ log' = Append(log, "gnu launch error")
       /\ pc' = next
    \/ /\ plots' = plots
       /\ log' = Append(log, "gnu launch error")
       /\ pc' = "crashed"

\* medianFilter(fof2, end, "foF2")
FilterFoF2 ==
    /\ pc = "filter_fof2"
    /\ \E r \in MedianFilterOutcomes(fof2, end) :
          /\ fof2' = r.dat
          /\ outputPixelValue' = r.out
          /\ acc' = [rd |-> r.rd, wr |-> r.wr, wi |-> r.wi]
          /\ FilterPlot(r.dat, r.out, end, "foF2", "filter_hmf2")
    /\ filter_name' = "foF2"
    /\ UNCHANGED <<gvars, file, fopen_ok, exit_code, nullUse, temporals, end, date_time, hmf2>>

\* medianFilter(hmf2, end, "hmF2")
FilterHmF2 ==
    /\ pc = "filter_hmf2"
    /\ \E r \in MedianFilterOutcomes(hmf2, end) :
          /\ hmf2' = r.dat
          /\ outputPixelValue' = r.out
          /\ acc' = [rd |-> r.rd, wr |-> r.wr, wi |-> r.wi]
          /\ FilterPlot(r.dat, r.out, end, "hmF2", "done")
    /\ filter_name' = "hmF2"
    /\ exit_code' = IF pc' = "done" THEN 0 ELSE exit_code
    /\ UNCHANGED <<gvars, file, fopen_ok, nullUse, temporals, end, date_time, fof2>>

(***************************************************************************)
(* geom_dist.  src/geom_dist.c is the first version, in which GIS2Radar    *)
(* prints its result and finalCoord returns through two pointers; the      *)
(* version after median_filter.c in the same file is the second, in which  *)
(* GIS2Radar, finalCoord and RtoG take a struct for the result.  news,     *)
(* readInputFile, getComOptions and main are the same in both.             *)
(*                                                                         *)
(* A float is a term: a number read from the file, or the application of   *)
(* one of the program's formulas to terms.  The formulas are not           *)
(* evaluated; two floats are equal here when they were computed the same   *)
(* way from the same numbers.                                              *)
(***************************************************************************)
Lit(n) == [fn |-> "number", val |-> n, args |-> <<>>]

Term(f, as) == [fn |-> f, val |-> 0, args |-> as]

\* a float that has not been assigned
None == Term("none", <<>>)

\* what an unassigned float can be read as
IndeterminateFloats == {Lit(0), Lit(7)}

\* degrees * (M_PI/180.)
Rad(deg) == Term("radians", <<deg>>)

haversine(lat_start, lon_start, lat_dest, lon_dest) ==
    Term("haversine", <<lat_start, lon_start, lat_dest, lon_dest>>)

bearing(lat_start, lon_start, lat_dest, lon_dest) ==
    Term("bearing", <<lat_start, lon_start, lat_dest, lon_dest>>)

\* the two values finalCoord computes
finalCoord(lat, lon, range, brng) ==
    [lat |-> Term("finalCoord.lat", <<lat, lon, range, brng>>),
     lon |-> Term("finalCoord.lon", <<lat, lon, range, brng>>)]

\* the range and bearing GIS2Radar computes from the coordinates in degrees
GIS2Radar(ig, fg) ==
    [range   |-> haversine(Rad(ig.lat), Rad(ig.lon), Rad(fg.lat), Rad(fg.lon)),
     bearing |-> bearing(Rad(ig.lat), Rad(ig.lon), Rad(fg.lat), Rad(fg.lon))]

\* the coordinates RtoG has finalCoord compute
RtoG(ig, rd) == finalCoord(Rad(ig.lat), Rad(ig.lon), rd.range, Rad(rd.bearing))

\* variant: the case 'S' is missing, only W negates
newsWestOnly(coord) ==
    LET len  == Len(coord)
        c    == coord[len]
        newc == SubSeq(coord, 1, len - 1)
        d    == IF c = 87 THEN -1 ELSE 1
    IN Lit(d * Atoi(newc))

\* news: the last character is the direction, S (83) and W (87) negate; the rest goes to atoi
news(coord) ==
    LET len  == Len(coord)
        c    == coord[len]
        newc == SubSeq(coord, 1, len - 1)
        d    == IF c \in {83, 87} THEN -1 ELSE 1
    IN Lit(d * Atoi(newc))

(***************************************************************************)
(* getComOptions: -1 when argc < 3, else the getopt loop with the options  *)
(* string "G:R": G takes an argument, R does not.  argv[1] of the model    *)
(* is the program name, so C's argv[i] is argv[i + 1] and argc is          *)
(* Len(argv).  getopt skips the arguments that are not options when it     *)
(* permutes (the default of the GNU and MinGW libraries) and stops at the  *)
(* first of them otherwise; "--" ends the options.  An unknown letter, or  *)
(* G without an argument, comes back as '?', which the loop reports with   *)
(* "Option not found" before it goes on.  The result is ret, and notfound  *)
(* counts the reports.                                                     *)
(***************************************************************************)
RECURSIVE getoptLoopSwapped(_, _, _, _, _)
\* variant: G gives 2 and R gives 1
getoptLoopSwapped(argv, i, j, permute, n) ==
    IF i >= Len(argv) THEN [ret |-> 0, notfound |-> n]
    ELSE LET a == argv[i + 1]
         IN IF j = 0
            THEN IF a = <<45, 45>> THEN [ret |-> 0, notfound |-> n]
                 ELSE IF Len(a) < 2 \/ a[1] # 45
                      THEN IF permute THEN getoptLoopSwapped(argv, i + 1, 0, permute, n)
                           ELSE [ret |-> 0, notfound |-> n]
                      ELSE getoptLoopSwapped(argv, i, 2, permute, n)
            ELSE IF a[j] = 82 THEN [ret |-> 1, notfound |-> n]
                 ELSE IF a[j] = 71 /\ (j < Len(a) \/ i + 1 < Len(argv))
                      THEN [ret |-> 2, notfound |-> n]
                      ELSE IF a[j] # 71 /\ j < Len(a)
                           THEN getoptLoopSwapped(argv, i, j + 1, permute, n + 1)
                           ELSE getoptLoopSwapped(argv, i + 1, 0, permute, n + 1)

RECURSIVE getoptLoop(_, _, _, _, _)
\* the loop from argv[i], character j of it (j = 0: the argument has not been looked at)
getoptLoop(argv, i, j, permute, n) ==
    IF i >= Len(argv) THEN [ret |-> 0, notfound |-> n]
    ELSE LET a == argv[i + 1]
         IN IF j = 0
            THEN IF a = <<45, 45>> THEN [ret |-> 0, notfound |-> n]
                 ELSE IF Len(a) < 2 \/ a[1] # 45
                      THEN IF permute THEN getoptLoop(argv, i + 1, 0, permute, n)
                           ELSE [ret |-> 0, notfound |-> n]
                      ELSE getoptLoop(argv, i, 2, permute, n)
            ELSE IF a[j] = 82 THEN [ret |-> 2, notfound |-> n]
                 ELSE IF a[j] = 71 /\ (j < Len(a) \/ i + 1 < Len(argv))
                      THEN [ret |-> 1, notfound |-> n]
                      ELSE IF a[j] # 71 /\ j < Len(a)
                           THEN getoptLoop(argv, i, j + 1, permute, n + 1)
                           ELSE getoptLoop(argv, i + 1, 0, permute, n + 1)

getComOptions(argv, permute) ==
    IF Len(argv) < 3 THEN [ret |-> -1, notfound |-> 0]
    ELSE getoptLoop(argv, 1, 0, permute, 0)

\* variant: main goes on to read after an incomplete command
GetComOptionsThenRead ==
    /\ gpc = "options"
    /\ LET r == getComOptions(world.argv, world.permute)
       IN /\ command_stat' = r.ret
          /\ glog' = IF r.ret = -1 THEN <<"Usage">>
                     ELSE [k \in 1..r.notfound |-> "Option not found"]
          /\ gpc' = "read"
          /\ gexit' = gexit
    /\ calls' = Append(calls, "getComOptions")
    /\ UNCHANGED <<mvars, world, coords, init_gis, final_gis, radar, shown>>

\* main's call of getComOptions; with -1 main does nothing more and returns 0
GetComOptions ==
    /\ gpc = "options"
    /\ LET r == getComOptions(world.argv, world.permute)
       IN /\ command_stat' = r.ret
          /\ glog' = IF r.ret = -1 THEN <<"Usage">>
                     ELSE [k \in 1..r.notfound |-> "Option not found"]
          /\ gpc' = IF r.ret = -1 THEN "done" ELSE "read"
          /\ gexit' = IF r.ret = -1 THEN 0 ELSE gexit
    /\ calls' = Append(calls, "getComOptions")
    /\ UNCHANGED <<mvars, world, coords, init_gis, final_gis, radar, shown>>

(***************************************************************************)
(* geom_dist's readInputFile: exit(1) when fopen fails; else the first     *)
(* line is dropped and every further line is split with strtok at ", "     *)
(* into the four buffers of COORD characters, the last line winning.  A    *)
(* line is the sequence of its tokens; the newline is no delimiter and     *)
(* stays in the last token.  A line of fewer than four tokens hands a      *)
(* null pointer to strcpy and a token of COORD or more characters          *)
(* overruns its buffer: the process crashes or goes on with indeterminate  *)
(* contents.                                                               *)
(***************************************************************************)
GeomDataLines(f) == SubSeq(f, 2, Len(f))

\* the lines that readInputFile cannot store
GeomBadLines(f) ==
    {k \in 1..Len(GeomDataLines(f)) :
        \/ Len(GeomDataLines(f)[k]) < 4
        \/ \E i \in 1..4 : Len(GeomDataLines(f)[k][i]) >= COORD}

\* the buffers after the loop; g stands for what could not be stored
CoordsRead(f, before, g) ==
    IF Len(GeomDataLines(f)) = 0 THEN before
    ELSE LET line == GeomDataLines(f)[Len(GeomDataLines(f))]
             tok(i) == IF i <= Len(line) /\ Len(line[i]) < COORD THEN line[i] ELSE g
         IN [i_lat |-> tok(1), i_lon |-> tok(2), coord_a |-> tok(3), coord_b |-> tok(4)]

GeomReadInputFile ==
    /\ gpc = "read"
    /\ calls' = Append(calls, "readInputFile")
    /\ \/ /\ ~world.fopen_ok
          /\ glog' = Append(glog, "Cannot read file")
          /\ gexit' = 1
          /\ gpc' = "exited"
          /\ coords' = coords
       \/ /\ world.fopen_ok
          /\ coords' = CoordsRead(world.file, coords, world.junk)
          /\ gpc' = "utility"
          /\ UNCHANGED <<glog, gexit>>
       \/ /\ world.fopen_ok
          /\ GeomBadLines(world.file) # {}
          /\ gpc' = "crashed"
          /\ UNCHANGED <<glog, gexit, coords>>
    /\ UNCHANGED <<mvars, world, command_stat, init_gis, final_gis, radar, shown>>

(***************************************************************************)
(* coordUtility.  Case 1 (-G): the four tokens go through news, GIS2Radar  *)
(* computes range and bearing; the first version prints them inside        *)
(* GIS2Radar, the second passes its radar to GIS2Radar by value and then   *)
(* to displayGIS2Radar, so what is displayed is the caller's radar, which  *)
(* was never assigned.  Case 2 (-R): in the first version RtoG gets the    *)
(* final coordinates through finalCoord's pointers and calls displayCoord; *)
(* in the second RtoG and finalCoord get final_gis by value and            *)
(* displayCoord is given the caller's final_gis, never assigned.           *)
(* displayCoord formats each coordinate into char str[] = "\0", two        *)
(* characters, with strcpy and strcat: the array is overrun, the lines are *)
(* printed or the process crashes.  Any other command_stat: nothing is     *)
(* computed or printed (the second version zeroes its three structs).      *)
(* When the file had no data line the buffers were never written and news  *)
(* works on indeterminate characters.                                      *)
(***************************************************************************)
NoGis == [lat |-> None, lon |-> None]

NoHead == [bearing |-> None, range |-> None]

Shown(step, ig, fg, rd) == [step |-> step, init_gis |-> ig, final_gis |-> fg, radar |-> rd]

InitialGis == [lat |-> news(coords.i_lat), lon |-> news(coords.i_lon)]

CoordUtility ==
    /\ gpc = "utility"
    /\ calls' = Append(calls, "coordUtility")
    /\ \/ /\ command_stat = 1
          /\ init_gis' = InitialGis
          /\ final_gis' = [lat |-> news(coords.coord_a), lon |-> news(coords.coord_b)]
          /\ IF world.version = 1
             THEN /\ radar' = radar
                  /\ shown' = Append(shown, Shown("GIS2Radar", init_gis', final_gis',
                                                  GIS2Radar(init_gis', final_gis')))
             ELSE /\ \E u, v \in IndeterminateFloats : radar' = [bearing |-> u, range |-> v]
                  /\ shown' = Append(shown, Shown("displayGIS2Radar", init_gis', final_gis', radar'))
          /\ gpc' = "done"
          /\ gexit' = 0
       \/ /\ command_stat = 2
          /\ init_gis' = InitialGis
          /\ radar' = [range |-> Lit(Atof(coords.coord_a)), bearing |-> Lit(Atof(coords.coord_b))]
          /\ IF world.version = 1
             THEN final_gis' = RtoG(init_gis', radar')
             ELSE \E u, v \in IndeterminateFloats : final_gis' = [lat |-> u, lon |-> v]
          /\ \/ /\ shown' = Append(shown, Shown("displayCoord", init_gis', final_gis', radar'))
                /\ gpc' = "done"
                /\ gexit' = 0
             \/ /\ shown' = shown
                /\ gpc' = "crashed"
                /\ gexit' = gexit
       \/ /\ command_stat \notin {1, 2}
          /\ IF world.version = 1
             THEN UNCHANGED <<init_gis, final_gis, radar>>
             ELSE /\ init_gis' = [lat |-> Lit(0), lon |-> Lit(0)]
                  /\ final_gis' = [lat |-> Lit(0), lon |-> Lit(0)]
                  /\ radar' = [bearing |-> Lit(0), range |-> Lit(0)]
          /\ shown' = shown
          /\ gpc' = "done"
          /\ gexit' = 0
       \/ /\ command_stat \in {1, 2}
          /\ Len(GeomDataLines(world.file)) = 0
          /\ gpc' = "crashed"
          /\ UNCHANGED <<init_gis, final_gis, radar, shown, gexit>>
    /\ UNCHANGED <<mvars, world, command_stat, coords, glog>>

\* geom_dist is not running
GeomIdle ==
    /\ world = [version |-> 0, argv |-> <<>>, permute |-> FALSE, fopen_ok |-> FALSE,
                file |-> <<>>, junk |-> <<>>]
    /\ gpc = "idle"
    /\ calls = <<>>
    /\ command_stat = -2
    /\ coords = [i_lat |-> <<>>, i_lon |-> <<>>, coord_a |-> <<>>, coord_b |-> <<>>]
    /\ init_gis = NoGis
    /\ final_gis = NoGis
    /\ radar = NoHead
    /\ shown = <<>>
    /\ glog = <<>>
    /\ gexit = -1

(***************************************************************************)
(* The run of median_filter                                                *)
(***************************************************************************)
Init ==
    /\ \/ fopen_ok = TRUE /\ InputFile(file)
       \/ fopen_ok = FALSE /\ file = <<>>
    /\ log = <<>>
    /\ exit_code = -1
    /\ nullUse = {}
    /\ pc = "read"
    /\ temporals = EmptyArr
    /\ end = 0
    /\ date_time = EmptyArr
    /\ fof2 = EmptyArr
    /\ hmf2 = EmptyArr
    /\ filter_name = ""
    /\ outputPixelValue = EmptyArr
    /\ acc = [rd |-> {}, wr |-> {}, wi |-> {}]
    /\ plots = <<>>
    /\ GeomIdle

Next ==
    \/ ReadInputFile
    \/ Combine
    \/ Sort
    \/ Extract
    \/ FilterFoF2
    \/ FilterHmF2

Spec == Init /\ [][Next]_vars

(***************************************************************************)
(* readInputFile alone, on files of about NUM_ROWS rows and on files with   *)
(* a token that fills its field or exceeds it by one character             *)
(***************************************************************************)
InitRead ==
    /\ \/ /\ fopen_ok = TRUE
          /\ \E n \in (NUM_ROWS - FewerRows)..(NUM_ROWS + 1) : \E c \in 0..9 :
                file = LongFile(n, c)
       \/ /\ fopen_ok = TRUE
          /\ \E i \in 1..3 : \E n \in (FieldSize[i] - 1)..FieldSize[i] :
                file = WideFile(i, n)
       \/ fopen_ok = FALSE /\ file = <<>>
    /\ log = <<>>
    /\ exit_code = -1
    /\ nullUse = {}
    /\ pc = "read"
    /\ temporals = EmptyArr
    /\ end = 0
    /\ date_time = EmptyArr
    /\ fof2 = EmptyArr
    /\ hmf2 = EmptyArr
    /\ filter_name = ""
    /\ outputPixelValue = EmptyArr
    /\ acc = [rd |-> {}, wr |-> {}, wi |-> {}]
    /\ plots = <<>>
    /\ GeomIdle

SpecRead == InitRead /\ [][ReadInputFile]_vars

(***************************************************************************)
(* geom_dist: the command lines and the files it is run on                 *)
(***************************************************************************)
\* "-G", "-R", "-x", "f", "-xR", "-Gf", "--"
Args == { <<45, 71>>, <<45, 82>>, <<45, 120>>, <<102>>, <<45, 120, 82>>, <<45, 71, 102>>,
          <<45, 45>> }

ProgName == <<103>>

\* "0", "7", "37" followed by N, E, S or W
LatTokens == {dg \o <<c>> : dg \in { <<48>>, <<55>>, <<51, 55>> }, c \in {78, 69, 83, 87}}

\* "75W", "0E"
LonTokens == { <<55, 53, 87>>, <<48, 69>> }

\* "18N", "100"
TokensA == { <<49, 56, 78>>, <<49, 48, 48>> }

\* "66W", "66W\n", "90\n"
TokensB == { <<54, 54, 87>>, <<54, 54, 87, 10>>, <<57, 48, 10>> }

GeomHeader == << <<73>> >>

\* "37N, 75W, 18N, 66W", the sample of the header comment
SampleLine == << <<51, 55, 78>>, <<55, 53, 87>>, <<49, 56, 78>>, <<54, 54, 87>> >>

\* no line at all, the header alone, a line of two tokens, a token of 8 characters, two data lines
OddFiles ==
    { <<>>,
      GeomHeader,
      GeomHeader \o << SubSeq(SampleLine, 1, 2) >>,
      GeomHeader \o << [SampleLine EXCEPT ![3] = <<49, 50, 51, 52, 46, 53, 54, 10>>] >>,
      GeomHeader \o << SampleLine, [SampleLine EXCEPT ![1] = <<55, 83>>] >> }

GeomFiles ==
    {GeomHeader \o << <<la, lo, a, b>> >> :
        la \in LatTokens, lo \in LonTokens, a \in TokensA, b \in TokensB} \cup OddFiles

\* what the buffers of main hold before anything is stored in them: "7S", "9"
JunkStrings == { <<55, 83>>, <<57>> }

GeomWorld(w) ==
    \/ \E n \in 0..MaxArgs : \E as \in [1..n -> Args] : \E v \in 1..2 : \E p \in BOOLEAN :
          w = [version |-> v, argv |-> <<ProgName>> \o as, permute |-> p, fopen_ok |-> TRUE,
               file |-> GeomHeader \o <<SampleLine>>, junk |-> <<57>>]
    \/ \E o \in { <<45, 71>>, <<45, 82>>, <<45, 120>> } : \E v \in 1..2 : \E ok \in BOOLEAN :
       \E j \in JunkStrings : \E f \in GeomFiles :
          w = [version |-> v, argv |-> <<ProgName, o, <<102>> >>, permute |-> TRUE,
               fopen_ok |-> ok, file |-> f, junk |-> j]

InitGeom ==
    /\ GeomWorld(world)
    /\ gpc = "options"
    /\ calls = <<>>
    /\ command_stat = -2
    /\ coords = [i_lat |-> world.junk, i_lon |-> world.junk,
                 coord_a |-> world.junk, coord_b |-> world.junk]
    /\ init_gis = NoGis
    /\ final_gis = NoGis
    /\ radar = NoHead
    /\ shown = <<>>
    /\ glog = <<>>
    /\ gexit = -1
    /\ fopen_ok = FALSE /\ file = <<>>
    /\ log = <<>>
    /\ exit_code = -1
    /\ nullUse = {}
    /\ pc = "idle"
    /\ temporals = EmptyArr
    /\ end = 0
    /\ date_time = EmptyArr
    /\ fof2 = EmptyArr
    /\ hmf2 = EmptyArr
    /\ filter_name = ""
    /\ outputPixelValue = EmptyArr
    /\ acc = [rd |-> {}, wr |-> {}, wi |-> {}]
    /\ plots = <<>>

NextGeom ==
    \/ GetComOptions
    \/ GeomReadInputFile
    \/ CoordUtility

SpecGeom == InitGeom /\ [][NextGeom]_vars

(***************************************************************************)
(* Vocabulary of the properties                                            *)
(***************************************************************************)
\* the column a medianFilter call was given, as it stands in the sorted records
SortedColumn(name) ==
    [k \in DOMAIN date_time |->
        IF name = "foF2" THEN date_time[k].fof2 ELSE date_time[k].hmf2]

\* a medianFilter call has run; its input column and its output
Filtered == filter_name # ""

Raw == SortedColumn(filter_name)

\* the middle value of an odd number of values: at most half of them lie below it and at most half above
BruteMedian(vals) ==
    CHOOSE m \in {vals[j] : j \in DOMAIN vals} :
        /\ 2 * Cardinality({j \in DOMAIN vals : vals[j] < m}) < Cardinality(DOMAIN vals)
        /\ 2 * Cardinality({j \in DOMAIN vals : vals[j] > m}) < Cardinality(DOMAIN vals)

StrictlyIncreasing(a) == \A k \in DOMAIN a : (k + 1) \in DOMAIN a => a[k] < a[k + 1]

StrictlyDecreasing(a) == \A k \in DOMAIN a : (k + 1) \in DOMAIN a => a[k] > a[k + 1]

\* a < b as raw character sequences
StrLess(a, b) ==
    \E k \in 1..(Len(a) + 1) :
        /\ k - 1 <= Len(b)
        /\ \A j \in 1..(k - 1) : a[j] = b[j]
        /\ \/ k = Len(a) + 1 /\ k <= Len(b)
           \/ k <= Len(a) /\ k <= Len(b) /\ a[k] < b[k]

StrLeq(a, b) == a = b \/ StrLess(a, b)

\* date first, time second
DateTimeLess(a, b) ==
    \/ StrLess(a.date, b.date)
    \/ a.date = b.date /\ StrLess(a.timestmp, b.timestmp)

\* the rows of the file that the record at position p of the sorted array can come from
SourceRows(p) == {r \in DOMAIN temporals : NewTemporal(temporals[r]) = date_time[p]}

AfterSort == pc \notin {"read", "combine", "sort"}

\* a diagnostic the process has printed
Logged(msg) == \E i \in DOMAIN log : log[i] = msg

\* a token that is a decimal number throughout
Parseable(tok) == Len(tok) > 0 /\ \A i \in 1..Len(tok) : IsDigit(tok[i])

\* a line of 15 tokens whose date, symbol and time fit the fields of struct temporal
\* and whose sequence and channel tokens are numbers
Conforming(line) ==
    /\ Len(line) = TokenCount
    /\ \A t \in 1..3 : Len(line[t]) < FieldSize[t]
    /\ \A t \in 4..TokenCount : Parseable(line[t])

\* the number a token of decimal digits denotes, last digit first
RECURSIVE DecimalValue(_)
DecimalValue(tok) ==
    IF Len(tok) = 0 THEN 0
    ELSE 10 * DecimalValue(SubSeq(tok, 1, Len(tok) - 1)) + (tok[Len(tok)] - 48)

\* readInputFile has returned to main
ReadReturned == pc \notin {"read", "exited"} /\ ~(pc = "crashed" /\ filter_name = "")

\* gnuplot has been handed the plot with this title
Plotted(title) == \E i \in DOMAIN plots : plots[i].title = title

\* every data line of the file conforms
WellFormed(f) == \A k \in 1..Len(DataLines(f)) : Conforming(DataLines(f)[k])

\* an argument that getopt takes for a group of option letters
OptionArg(a) == Len(a) >= 2 /\ a[1] = 45 /\ a # <<45, 45>>

\* the argument holds the letter
HasLetter(a, c) == \E j \in 2..Len(a) : a[j] = c

\* C's argv[i] is the first argument getopt takes for options
FirstOptionArg(argv, i, permute) ==
    /\ i + 1 \in 2..Len(argv)
    /\ OptionArg(argv[i + 1])
    /\ \A k \in 1..(i - 1) : ~OptionArg(argv[k + 1]) /\ argv[k + 1] # <<45, 45>>
    /\ permute \/ i = 1

\* a coordinate token: digits and then one of N, E, S, W
DegreesToken(tok) ==
    /\ Len(tok) >= 2
    /\ tok[Len(tok)] \in {78, 69, 83, 87}
    /\ \A j \in 1..(Len(tok) - 1) : IsDigit(tok[j])

Degrees(tok) == DecimalValue(SubSeq(tok, 1, Len(tok) - 1))

\* coordUtility has converted the coordinates of a data line
Converted == gpc = "done" /\ command_stat \in {1, 2} /\ Len(GeomDataLines(world.file)) > 0

\* a float that one of the formulas computed
Computed(x) == x.fn \notin {"none", "number"}

\* the key and the two channel values of a row as it was read
Triple(t) == [date_t |-> t.date \o <<46>> \o t.timestmp, fof2 |-> t.d[0], hmf2 |-> t.d[5]]

\* how often the array holds the value
Count(arr, v) == Cardinality({k \in DOMAIN arr : arr[k] = v})

\* the file with h[k] as the channel-5 token of its k-th data line
WithChannel5(f, h) ==
    [n \in 1..Len(f) |-> IF n >= 3 /\ Len(f[n]) >= 5 + DAT1
                         THEN [f[n] EXCEPT ![5 + DAT1] = Num(h[n - 2])]
                         ELSE f[n]]

\* files with the keys and the channel-0 values of f and other channel-5 values:
\* rising with the line, falling with the line
Channel5Variants(f) ==
    LET n == Len(DataLines(f))
    IN {WithChannel5(f, [k \in 1..n |-> k]),
        WithChannel5(f, [k \in 1..n |-> n - k])} \ {f}

\* the process is still on its way
Running == pc \in {"read", "combine", "sort", "extract", "filter_fof2", "filter_hmf2"}

(***************************************************************************)
(* C1: every interior position i in [edge, N-edge), edge = floor(3/2), of  *)
(* the filter's output holds the median of the three input values          *)
(* S[i-edge..i+edge], taken from the input column and not from outputs     *)
(* already computed.                                                       *)
(***************************************************************************)
C1_InteriorIsWindowMedian ==
    Filtered =>
        LET W == 3
            e == W \div 2
        IN \A i \in e..(end - e - 1) :
              outputPixelValue[i] = BruteMedian([j \in 0..(W - 1) |-> Raw[i + j - e]])

\* two neighbouring interior positions both change, so filtering in place would differ
C1_Witness ==
    /\ Filtered
    /\ end >= 4
    /\ \E i \in 1..(end - 3) :
          /\ outputPixelValue[i] # Raw[i]
          /\ outputPixelValue[i + 1] # Raw[i + 1]
          /\ outputPixelValue[i + 1] #
                BruteMedian(<<outputPixelValue[i], Raw[i + 1], Raw[i + 2]>>)

(***************************************************************************)
(* C2 as stated: the column 7,8,2,1,3,6,5,7,4 is filtered to               *)
(* 7,7,2,2,3,5,6,6,4.                                                      *)
(***************************************************************************)
C2_ScenarioA ==
    (Filtered /\ Raw = ToArr(<<7, 8, 2, 1, 3, 6, 5, 7, 4>>)) =>
        outputPixelValue = ToArr(<<7, 7, 2, 2, 3, 5, 6, 6, 4>>)

(***************************************************************************)
(* C2 amended: the column 7,8,2,1,3,6,5,7,4 is filtered to                 *)
(* 7,7,2,2,3,5,6,5,4 (position 7 holds 5, the median of 5,7,4).            *)
(***************************************************************************)
C2_ScenarioAMedians ==
    (Filtered /\ Raw = ToArr(<<7, 8, 2, 1, 3, 6, 5, 7, 4>>)) =>
        outputPixelValue = ToArr(<<7, 7, 2, 2, 3, 5, 6, 5, 4>>)

C2_Witness ==
    /\ Filtered
    /\ Raw = ToArr(<<7, 8, 2, 1, 3, 6, 5, 7, 4>>)
    /\ Len(plots) = 1
    /\ plots[1].filtered[8] = <<7, 5>>

(***************************************************************************)
(* C3: for N >= 1 the positions [0, edge) and [N-edge, N) of the output    *)
(* equal the input at the same positions: output[0] = input[0] and         *)
(* output[N-1] = input[N-1].                                               *)
(***************************************************************************)
C3_BoundaryPassThrough ==
    (Filtered /\ end >= 1) =>
        LET e == 3 \div 2
        IN /\ DOMAIN outputPixelValue = 0..(end - 1)
           /\ \A i \in (0..(e - 1)) \cup ((end - e)..(end - 1)) :
                 i \in 0..(end - 1) => outputPixelValue[i] = Raw[i]

\* the interior was filtered, the two ends kept values that are not window medians
C3_Witness ==
    /\ Filtered
    /\ end >= 3
    /\ outputPixelValue # Raw
    /\ outputPixelValue[0] # outputPixelValue[1]
    /\ outputPixelValue[end - 1] # outputPixelValue[end - 2]

(***************************************************************************)
(* C4: the filtered block handed to gnuplot has as many points as the raw  *)
(* block, one per row, and point i of either block carries the index i.    *)
(***************************************************************************)
C4_SameLengthAndAlignment ==
    /\ Filtered => DOMAIN outputPixelValue = DOMAIN Raw
    /\ \A p \in 1..Len(plots) :
          /\ Len(plots[p].unfiltered) = end
          /\ Len(plots[p].filtered) = end
          /\ \A i \in 1..end :
                /\ plots[p].unfiltered[i][1] = i - 1
                /\ plots[p].filtered[i][1] = i - 1

C4_Witness ==
    /\ Len(plots) = 2
    /\ end >= 3
    /\ plots[1].filtered # plots[1].unfiltered
    /\ Len(plots[2].filtered) = Len(plots[2].unfiltered)

(***************************************************************************)
(* C5: when the window is wider than the column (N in {1, 2}) no position  *)
(* is filtered: the output equals the input everywhere.                    *)
(***************************************************************************)
C5_DegenerateWindow ==
    (Filtered /\ end \in 1..2) =>
        /\ outputPixelValue = Raw
        /\ acc.wi = {}

C5_Witness ==
    /\ Filtered
    /\ end = 2
    /\ Raw[0] # Raw[1]
    /\ outputPixelValue = Raw
    /\ Len(plots) = 1

(***************************************************************************)
(* C6: for every N >= 0 each index medianFilter uses lies inside its       *)
(* array: reads of the input and writes of the output in [0, N-1], writes  *)
(* of the window in [0, W-1].                                              *)
(***************************************************************************)
C6_IndicesInBounds ==
    /\ acc.rd \subseteq 0..(end - 1)
    /\ acc.wr \subseteq 0..(end - 1)
    /\ acc.wi \subseteq 0..(3 - 1)

\* the extreme indices are used
C6_Witness ==
    /\ Filtered
    /\ end >= 3
    /\ {0, end - 1} \subseteq acc.rd
    /\ {0, end - 1} \subseteq acc.wr
    /\ {0, 2} \subseteq acc.wi

(***************************************************************************)
(* C7: a strictly increasing or strictly decreasing column is returned     *)
(* unchanged.                                                              *)
(***************************************************************************)
C7_MonotonicUnchanged ==
    (Filtered /\ (StrictlyIncreasing(Raw) \/ StrictlyDecreasing(Raw))) =>
        outputPixelValue = Raw

C7_Witness ==
    /\ filter_name = "hmF2"
    /\ end >= 5
    /\ StrictlyDecreasing(Raw)
    /\ outputPixelValue = Raw

(***************************************************************************)
(* C8: medianFilter leaves its input as it was: after each call, and in    *)
(* the raw block handed to gnuplot, the column still holds the values      *)
(* extracted from the sorted records; the filtered values are elsewhere.   *)
(***************************************************************************)
C8_InputNotModified ==
    /\ pc \in {"filter_hmf2", "done", "crashed"} => fof2 = SortedColumn("foF2")
    /\ pc \in {"done", "crashed"} => hmf2 = SortedColumn("hmF2")
    /\ \A p \in 1..Len(plots) :
          /\ DOMAIN plots[p].unfiltered = 1..end
          /\ \A i \in 1..end :
                plots[p].unfiltered[i][2] = SortedColumn(plots[p].title)[i - 1]

C8_Witness ==
    /\ pc = "done"
    /\ Len(plots) = 2
    /\ outputPixelValue # hmf2
    /\ plots[1].filtered # plots[1].unfiltered
    /\ fof2 = SortedColumn("foF2")

(***************************************************************************)
(* C9: after the sort the key of every record is less than or equal to the *)
(* key of its successor as raw character sequences, also when keys are     *)
(* shared.                                                                 *)
(***************************************************************************)
C9_AdjacentKeysOrdered ==
    AfterSort =>
        \A k \in 0..(end - 2) : StrLeq(date_time[k].date_t, date_time[k + 1].date_t)

\* the sort moved a row, and two rows share a key
C9_Witness ==
    /\ pc = "extract"
    /\ end = 3
    /\ date_time[0].fof2 = 3
    /\ date_time[1].date_t = date_time[2].date_t
    /\ date_time[1].fof2 = 2

(***************************************************************************)
(* C10 as stated: records are ordered by date first and time second, for   *)
(* every pair of date and time strings: no record stands before one that   *)
(* is smaller in date, or equal in date and smaller in time.               *)
(***************************************************************************)
C10_DateThenTime ==
    AfterSort =>
        \A p, q \in DOMAIN date_time :
            p < q => \A a \in SourceRows(p), b \in SourceRows(q) :
                        ~DateTimeLess(temporals[b], temporals[a])

(***************************************************************************)
(* C10 amended: the same for every pair of records whose dates have the    *)
(* same length.                                                            *)
(***************************************************************************)
C10_DateThenTimeEqualLength ==
    AfterSort =>
        \A p, q \in DOMAIN date_time :
            p < q => \A a \in SourceRows(p), b \in SourceRows(q) :
                        Len(temporals[a].date) = Len(temporals[b].date) =>
                            ~DateTimeLess(temporals[b], temporals[a])

\* the sort put a later row first because of its date, and another because of its time
C10_Witness ==
    /\ pc = "extract"
    /\ end = 3
    /\ SourceRows(0) = {2}
    /\ SourceRows(1) = {1}
    /\ SourceRows(2) = {0}
    /\ Len(temporals[0].date) = 2
    /\ temporals[0].date = temporals[1].date
    /\ StrLess(temporals[1].timestmp, temporals[0].timestmp)
    /\ Len(temporals[2].date) = 2
    /\ StrLess(temporals[2].date, temporals[1].date)

(***************************************************************************)
(* C11: extraction is a projection that keeps the sorted order: element k  *)
(* of each extracted column is the value of that channel (0 for foF2, 5    *)
(* for hmF2) in the row of the file that stands at position k after the    *)
(* sort, one value per record.                                             *)
(***************************************************************************)
C11_ExtractionKeepsOrder ==
    pc \in {"filter_fof2", "filter_hmf2", "done", "crashed"} =>
        /\ DOMAIN fof2 = 0..(end - 1)
        /\ DOMAIN hmf2 = 0..(end - 1)
        /\ \A k \in 0..(end - 1) :
              \E r \in DOMAIN temporals :
                  /\ temporals[r].date \o <<46>> \o temporals[r].timestmp = date_time[k].date_t
                  /\ fof2[k] = temporals[r].d[0]
                  /\ hmf2[k] = temporals[r].d[5]

\* the sort reversed three rows and the columns follow it
C11_Witness ==
    /\ pc = "filter_fof2"
    /\ end = 3
    /\ temporals[0].d[0] = 1
    /\ fof2 = ToArr(<<3, 2, 1>>)
    /\ hmf2 = ToArr(<<0, 1, 2>>)
    /\ \A k \in 0..1 : StrLess(date_time[k].date_t, date_time[k + 1].date_t)

(***************************************************************************)
(* C12: a data line whose token count is not 15 makes the parser report    *)
(* SchemaViolation, and no token beyond those present on the line is read  *)
(* or dereferenced.  The code has no such check: on a shorter line strtok  *)
(* returns a null pointer that goes to strcpy, atoi or atof, and a longer  *)
(* line is accepted without a report.                                      *)
(***************************************************************************)
C12_TokenCountChecked ==
    \A k \in 1..Len(DataLines(file)) :
        (fopen_ok /\ pc # "read" /\ Len(DataLines(file)[k]) # TokenCount) =>
            /\ Logged("SchemaViolation")
            /\ nullUse = {}

(***************************************************************************)
(* C13: a line of 15 tokens whose sequence token or one of whose channel   *)
(* tokens is not a number is reported as SchemaViolation and gives no      *)
(* record.  The code stores what atoi and atof return for the token, 0     *)
(* for "x" and 3 for "3x", and reports nothing.                            *)
(***************************************************************************)
C13_UnparseableRejected ==
    \A k \in 1..Len(DataLines(file)) :
        (/\ fopen_ok /\ pc # "read"
         /\ Len(DataLines(file)[k]) = TokenCount
         /\ \E t \in 4..TokenCount : ~Parseable(DataLines(file)[k][t])) =>
            /\ Logged("SchemaViolation")
            /\ (k - 1) \notin DOMAIN temporals

(***************************************************************************)
(* C14: the record of a line of 15 tokens with numeric sequence and        *)
(* channel tokens has date = token 1, symbol = token 2, time = token 3,    *)
(* sequence = the integer of token 4 and channel k = the value of token    *)
(* 5 + k for k in 0..10: exactly 11 channel values in input order.         *)
(***************************************************************************)
C14_FieldMapping ==
    \A k \in 1..Len(DataLines(file)) :
        (/\ fopen_ok /\ pc # "read"
         /\ Conforming(DataLines(file)[k])
         /\ (k - 1) \in DOMAIN temporals) =>
            LET line == DataLines(file)[k]
                t    == temporals[k - 1]
            IN /\ t.date = line[1]
               /\ t.dig = line[2]
               /\ t.timestmp = line[3]
               /\ t.x = DecimalValue(line[4])
               /\ DOMAIN t.d = 0..10
               /\ \A c \in 0..10 : t.d[c] = DecimalValue(line[5 + c])

\* a row "1- A 2 1 1 9 9 9 9 2 9 9 9 9 9" has been read into the first record
C14_Witness ==
    /\ pc = "combine"
    /\ end = 3
    /\ Conforming(file[3])
    /\ temporals[0].date = <<49, 45>>
    /\ temporals[0].dig = <<65>>
    /\ temporals[0].timestmp = <<50>>
    /\ temporals[0].x = 1
    /\ temporals[0].d[0] = 1
    /\ temporals[0].d[5] = 2
    /\ temporals[0].d[10] = 9

(***************************************************************************)
(* C15: the first two lines are discarded by position whatever they hold:  *)
(* once a file of L lines is read there are max(0, L - 2) records, record  *)
(* k (counted from 0) holds the fields of line k + 3, and nothing is       *)
(* reported when the two lines dropped were data rows.                     *)
(***************************************************************************)
C15_TwoLinesDiscarded ==
    (fopen_ok /\ ReadReturned) =>
        /\ end = IF Len(file) > 2 THEN Len(file) - 2 ELSE 0
        /\ DOMAIN temporals = 0..(end - 1)
        /\ \A k \in 0..(end - 1) :
              Len(file[k + 3]) >= TokenCount =>
                  /\ temporals[k].date = file[k + 3][1]
                  /\ temporals[k].dig = file[k + 3][2]
                  /\ temporals[k].timestmp = file[k + 3][3]
                  /\ temporals[k].x = Atoi(file[k + 3][4])
        /\ \A i \in DOMAIN log : log[i] = "gnu launch error"
        /\ exit_code # 1

\* three data rows and no header: the only record is the third row
C15_Witness ==
    /\ file = HeaderlessFile(3)
    /\ pc = "combine"
    /\ end = 1
    /\ temporals[0].timestmp = <<51>>
    /\ temporals[0].x = 3
    /\ log = <<>>

(***************************************************************************)
(* C16: the records have no fixed upper bound: whatever the number M of    *)
(* data lines, all M records are stored and every record is written        *)
(* inside the storage of the collection.  The code stores them in          *)
(* temporals[NUM_ROWS] and never compares the index with NUM_ROWS.         *)
(***************************************************************************)
C16_NoFixedCapacity ==
    (fopen_ok /\ pc # "read") =>
        /\ pc # "crashed"
        /\ DOMAIN temporals = 0..(Len(DataLines(file)) - 1)
        /\ \A k \in DOMAIN temporals : k < NUM_ROWS

(***************************************************************************)
(* C17: when the input file cannot be opened the process ends with a       *)
(* diagnostic and a non-zero exit status; no record is parsed, nothing is  *)
(* sorted, and no filter or plot step runs afterwards.                     *)
(***************************************************************************)
C17_OpenFailureAborts ==
    (~fopen_ok /\ pc # "read") =>
        /\ pc = "exited"
        /\ ~ENABLED Next
        /\ Logged("Cannot read file")
        /\ exit_code > 0
        /\ temporals = EmptyArr /\ end = 0
        /\ date_time = EmptyArr
        /\ fof2 = EmptyArr /\ hmf2 = EmptyArr
        /\ filter_name = "" /\ outputPixelValue = EmptyArr
        /\ plots = <<>>

\* the process has exited after the failed fopen
C17_Witness ==
    /\ ~fopen_ok
    /\ pc = "exited"
    /\ exit_code = 1
    /\ log = <<"Cannot read file">>

(***************************************************************************)
(* C18: a failure in filtering or handing off one channel is local to it:  *)
(* when gnuplot cannot be launched for foF2, hmF2 is still filtered and    *)
(* handed off.  In the code filterPlot goes on to fprintf on the null      *)
(* stream after the failed popen, and the crash ends the whole run.        *)
(***************************************************************************)
C18_PlotFailureIsLocal ==
    (~Running /\ filter_name # "" /\ ~Plotted("foF2")) =>
        /\ filter_name = "hmF2"
        /\ DOMAIN outputPixelValue = DOMAIN hmf2
        /\ Plotted("hmF2") \/ Len(log) = 2

(***************************************************************************)
(* C19: on a readable, well-formed input the steps run in the order parse, *)
(* sort, extract, filter, plot; nothing is filtered or plotted before the  *)
(* sort is complete; the filter and plot step runs once for foF2 and then  *)
(* once for hmF2; and the run then terminates.  The order holds, but the   *)
(* run that C18's failed popen crashes ends after the foF2 step.           *)
(***************************************************************************)
C19_StepOrderAndTermination ==
    (fopen_ok /\ WellFormed(file)) =>
        /\ (filter_name # "" \/ plots # <<>>) =>
              /\ AfterSort
              /\ \A k \in DOMAIN date_time : (k + 1) \in DOMAIN date_time =>
                    Strcmp(date_time[k].date_t, date_time[k + 1].date_t) <= 0
        /\ pc = "filter_hmf2" => filter_name = "foF2"
        /\ filter_name = "hmF2" => pc \in {"done", "crashed"}
        /\ Len(plots) <= 2
        /\ \A i \in DOMAIN plots : plots[i].title = IF i = 2 \/ ~Plotted("foF2") THEN "hmF2" ELSE "foF2"
        /\ ~Running => pc = "done" /\ filter_name = "hmF2" /\ exit_code = 0

(***************************************************************************)
(* C21: getComOptions returns -1 when fewer than 3 command-line arguments  *)
(* are given (the program name counts), 1 when -G is selected, 2 when -R   *)
(* is selected and 0 when there are 3 or more arguments and no option is   *)
(* recognised; the first recognised option decides.                        *)
(***************************************************************************)
C21_GetComOptionsResult ==
    gpc # "options" =>
        LET argv == world.argv
            argc == Len(argv)
        IN /\ command_stat = -1 <=> argc < 3
           /\ argc >= 3 =>
                 /\ command_stat \in {0, 1, 2}
                 /\ argv[2] = <<45, 71>> => command_stat = 1
                 /\ argv[2] = <<45, 82>> => command_stat = 2
                 /\ (\A k \in 2..argc : ~OptionArg(argv[k]) \/
                        (~HasLetter(argv[k], 71) /\ ~HasLetter(argv[k], 82))) => command_stat = 0
                 /\ command_stat = 1 => \E k \in 2..argc : OptionArg(argv[k]) /\ HasLetter(argv[k], 71)
                 /\ command_stat = 2 => \E k \in 2..argc : OptionArg(argv[k]) /\ HasLetter(argv[k], 82)
                 /\ \A i \in 1..(argc - 1) :
                       FirstOptionArg(argv, i, world.permute) =>
                           /\ argv[i + 1][2] = 82 => command_stat = 2
                           /\ (argv[i + 1][2] = 71 /\ (Len(argv[i + 1]) > 2 \/ i + 1 < argc)) =>
                                 command_stat = 1

\* "-R -G f": the first option decides
C21_Witness ==
    /\ gpc = "read"
    /\ world.argv = <<ProgName, <<45, 82>>, <<45, 71>>, <<102>> >>
    /\ command_stat = 2

(***************************************************************************)
(* C22: in the version whose GIS2Radar takes a radar parameter, the range  *)
(* and bearing that the display step prints after the -G conversion are    *)
(* the values GIS2Radar computed with haversine and bearing from the       *)
(* initial and final coordinates.  GIS2Radar gets the struct by value, so  *)
(* what displayGIS2Radar is given is the caller's radar, never assigned.   *)
(***************************************************************************)
C22_RadarReachesDisplay ==
    (world.version = 2 /\ command_stat = 1 /\ gpc = "done") =>
        /\ Len(shown) = 1
        /\ shown[1].step = "displayGIS2Radar"
        /\ shown[1].radar = GIS2Radar(init_gis, final_gis)
        /\ radar = GIS2Radar(init_gis, final_gis)

(***************************************************************************)
(* C23: in the version whose RtoG and finalCoord take a final_gis          *)
(* parameter, the final latitude and longitude that displayCoord prints    *)
(* after the -R conversion are the values finalCoord computed from the     *)
(* initial coordinates, the range and the bearing.  Both get the struct by *)
(* value, so displayCoord is given the caller's final_gis, never assigned. *)
(***************************************************************************)
C23_FinalGisReachesDisplay ==
    (world.version = 2 /\ command_stat = 2 /\ gpc = "done") =>
        /\ Len(shown) = 1
        /\ shown[1].step = "displayCoord"
        /\ shown[1].final_gis = RtoG(init_gis, radar)
        /\ final_gis = RtoG(init_gis, radar)

C25_DispatchOnStatus ==
    /\ (\E k \in DOMAIN calls : calls[k] \in {"readInputFile", "coordUtility"}) =>
          command_stat \in {0, 1, 2}
    /\ command_stat = -1 =>
          /\ calls = <<"getComOptions">>
          /\ gpc = "done"
          /\ coords = [i_lat |-> world.junk, i_lon |-> world.junk,
                       coord_a |-> world.junk, coord_b |-> world.junk]
          /\ init_gis = NoGis /\ final_gis = NoGis /\ radar = NoHead
          /\ shown = <<>>
    /\ command_stat = 0 =>
          /\ shown = <<>>
          /\ ~Computed(radar.range) /\ ~Computed(radar.bearing)
          /\ ~Computed(final_gis.lat) /\ ~Computed(final_gis.lon)
          /\ gpc = "done" =>
                /\ calls = <<"getComOptions", "readInputFile", "coordUtility">>
                /\ coords = CoordsRead(world.file, coords, world.junk)
    /\ shown # <<>> => command_stat \in {1, 2} /\ calls[Len(calls)] = "coordUtility"

\* "-x f": the sample line has been read and nothing is converted
C25_Witness ==
    /\ command_stat = 0
    /\ gpc = "done"
    /\ calls = <<"getComOptions", "readInputFile", "coordUtility">>
    /\ coords.i_lat = <<51, 55, 78>>
    /\ coords.coord_b = <<54, 54, 87>>
    /\ shown = <<>>

(***************************************************************************)
(* C26: sorting only permutes the records: the multiset of (key, foF2,     *)
(* hmF2) triples after the sort is the multiset of the rows read, so each  *)
(* value stays with the key of its line, and the two channels of one       *)
(* record end at the same position of the two extracted columns.           *)
(***************************************************************************)
C26_SortPermutes ==
    AfterSort =>
        LET read == [k \in 0..(end - 1) |-> Triple(temporals[k])]
        IN /\ DOMAIN date_time = DOMAIN read
           /\ \A k \in DOMAIN read : Count(date_time, read[k]) = Count(read, read[k])
           /\ pc # "extract" =>
                 /\ DOMAIN fof2 = DOMAIN read /\ DOMAIN hmf2 = DOMAIN read
                 /\ \A k \in DOMAIN read :
                       Count(date_time, [date_t |-> date_time[k].date_t,
                                         fof2 |-> fof2[k], hmf2 |-> hmf2[k]]) > 0

\* three rows that the sort has put in another order, extracted
C26_Witness ==
    /\ pc = "filter_fof2"
    /\ end = 3
    /\ date_time[0] = Triple(temporals[2])
    /\ date_time[2] = Triple(temporals[0])
    /\ date_time[0] # date_time[2]
    /\ fof2[0] = temporals[2].d[0] /\ hmf2[0] = temporals[2].d[5]
    /\ fof2[0] # fof2[2] /\ hmf2[0] # hmf2[2]

(***************************************************************************)
(* C27: the filter introduces no new value: at every position i,          *)
(* filtered[i] is one of raw[i-1], raw[i], raw[i+1] that exist, and so     *)
(* lies between the least and the greatest value of raw.                   *)
(***************************************************************************)
C27_NoNewValues ==
    Filtered =>
        \A i \in DOMAIN outputPixelValue :
            /\ \E j \in {i - 1, i, i + 1} : j \in DOMAIN Raw /\ outputPixelValue[i] = Raw[j]
            /\ \E a \in DOMAIN Raw : Raw[a] <= outputPixelValue[i]
            /\ \E b \in DOMAIN Raw : outputPixelValue[i] <= Raw[b]

\* a value has been replaced by its left neighbour and another by its right neighbour
C27_Witness ==
    /\ Filtered
    /\ end >= 4
    /\ \E i \in 1..(end - 2) : outputPixelValue[i] # Raw[i] /\ outputPixelValue[i] = Raw[i - 1]
    /\ \E i \in 1..(end - 2) : outputPixelValue[i] # Raw[i] /\ outputPixelValue[i] = Raw[i + 1]

(***************************************************************************)
(* C28: for every data line the date, symbol and time tokens copied into   *)
(* the record fit the fields (at most 10, 5 and 8 characters and the       *)
(* terminator), the key date "." time fits its 20 characters with the      *)
(* terminator, and no copy writes past the end of a field.  The copies are *)
(* strcpy and strcat calls without a check of the length.                  *)
(***************************************************************************)
C28_FieldsFit ==
    (fopen_ok /\ pc # "read") =>
        /\ Overruns(file) = {}
        /\ \A k \in DOMAIN temporals :
              /\ Len(temporals[k].date) + 1 <= CHAR_DATE
              /\ Len(temporals[k].dig) + 1 <= INT_SYM
              /\ Len(temporals[k].timestmp) + 1 <= CHAR_TIME
              /\ Len(temporals[k].date) + 1 + Len(temporals[k].timestmp) + 1 <= CHAR_DATE + CHAR_TIME

(***************************************************************************)
(* C29: the raw and the filtered foF2 column depend only on the keys and   *)
(* the channel-0 values of the input: whatever raw and filtered foF2       *)
(* column a run on a file of complete lines produces, a run on the file    *)
(* with the same keys, the same channel-0 values and other channel-5       *)
(* values produces the same two columns.                                   *)
(***************************************************************************)
C29_FoF2IndependentOfHmF2 ==
    (pc = "filter_hmf2" /\ WellFormed(file)) =>
        \A other \in Channel5Variants(file) :
            <<fof2, outputPixelValue>> \in FoF2Runs(other)

\* three rows, two of them with one key and different values in both channels,
\* filtered; the file has a variant
C29_Witness ==
    /\ pc = "filter_hmf2"
    /\ WellFormed(file)
    /\ end = 3
    /\ Channel5Variants(file) # {}
    /\ \E k \in 0..1 :
          /\ date_time[k].date_t = date_time[k + 1].date_t
          /\ date_time[k].fof2 # date_time[k + 1].fof2
          /\ date_time[k].hmf2 > date_time[k + 1].hmf2
    /\ outputPixelValue # fof2

====
